---- MODULE Spec2Model ----
(***************************************************************************)
(* The terminal block state machine of Kui's ScrollableTerminal            *)
(* (plugin-client-common/src/components/Views/Terminal).                   *)
(*                                                                         *)
(* A terminal owns an ordered sequence of blocks.  Handlers subscribed on  *)
(* the process-wide event channel (command start, command complete,        *)
(* terminal clear) and the block-removal callback of the rendering layer   *)
(* replace that sequence through React's functional setState.  Handlers    *)
(* run to completion, so every action below is one whole handler, followed *)
(* by the render pass that re-binds the reference to the active block.     *)
(*                                                                         *)
(* Sequences are 1-based here; the code's 0-based indices are kept as the  *)
(* arguments of at, slice and findIndex.                                   *)
(***************************************************************************)
EXTENDS Integers, Sequences, FiniteSets, TLC

VARIABLES
    blocks,       \* this.state.blocks
    activeBlock,  \* this._activeBlock, with the text typed in its input
    subs,         \* eventChannelUnsafe: the registered (topic, handler) pairs
    cleaners,     \* this.cleaners
    mounted,      \* FALSE once componentWillUnmount has run
    prev,         \* blocks and activeBlock as the running handler found them
    last,         \* the handler on the stack and its arguments, or idle
    tblocks,      \* two terminals on one channel: state.blocks of each tab
    trefs,        \* two terminals on one channel: _activeBlock of each tab
    bus,          \* two terminals on one channel: the registrations
    tprev,        \* two terminals on one channel: tblocks before the event
    tlast,        \* two terminals on one channel: the event being dispatched
    call,         \* a single call of a function: its arguments and its result
    pending       \* the executions the engine has started and not yet completed

\* the variables of one terminal
terminalVars == <<blocks, activeBlock, subs, cleaners, mounted, prev, last>>

\* the variables of the two terminals that share the channel
tabVars == <<tblocks, trefs, bus, tprev, tlast>>

vars == <<blocks, activeBlock, subs, cleaners, mounted, prev, last,
          tblocks, trefs, bus, tprev, tlast, call, pending>>

----------------------------------------------------------------------------
(* Bounds of the model *)

\* the sequence never grows beyond this length
MaxBlocks == 4
\* execution identifiers are drawn from 1..MaxExec
MaxExec == 2

ExecIds == 1..MaxExec
Texts == {"", "foo"}
Commands == {"ls"}
\* the boolean `true` stored by onExecEnd when the response is viewed elsewhere
OkTrue == "true"
\* a response the watch pane can show, and one it cannot
Responses == {"resp", "watch"}
ResponseTypes == {"ScalarResponse", "MultiModalResponse"}
ViewIn == {"Terminal", "none"}

----------------------------------------------------------------------------
(* Block model: ./Block/BlockModel *)

\* what blocks[i] yields outside of the array
undefined == [state |-> "undefined"]

Active(capturedValue) == [state |-> "Active", value |-> capturedValue]

Processing(block, command, execUUID) ==
    [state |-> "Processing", command |-> command, execUUID |-> execUUID]

Finished(block, response, cancelled) ==
    [state |-> "Finished", response |-> response, cancelled |-> cancelled]

Cancelled(block) == [state |-> "Cancelled"]

isActive(block) == block.state = "Active"

isProcessing(block) == block.state = "Processing"

----------------------------------------------------------------------------
(* Array primitives of the language, with 0-based indices *)

\* array[i]
at(array, i) == IF 0 <= i /\ i < Len(array) THEN array[i + 1] ELSE undefined

\* a negative index of Array.prototype.slice counts from the end
relIndex(array, k) ==
    IF k < 0 THEN (IF Len(array) + k < 0 THEN 0 ELSE Len(array) + k)
    ELSE (IF k > Len(array) THEN Len(array) ELSE k)

\* array.slice(start, end)
slice(array, start, end) ==
    SubSeq(array, relIndex(array, start) + 1, relIndex(array, end))

\* array.slice(start)
sliceFrom(array, start) == slice(array, start, Len(array))

\* array.findIndex over the 1-based positions that satisfy the predicate:
\* the first of them, 0-based, or -1
findIndex(positions) ==
    IF positions = {} THEN -1
    ELSE (CHOOSE i \in positions : \A j \in positions : i <= j) - 1

\* array.splice(start, deleteCount), as it leaves the array; a negative
\* start counts from the end
spliceOut(array, start, deleteCount) ==
    LET from == relIndex(array, start)
        upto == relIndex(array, from + deleteCount)
    IN  SubSeq(array, 1, from) \o SubSeq(array, upto + 1, Len(array))

\* array.splice(start, 0, item), as it leaves the array
spliceIn(array, start, item) ==
    LET from == relIndex(array, start)
    IN  SubSeq(array, 1, from) \o <<item>> \o SubSeq(array, from + 1, Len(array))

\* array[array.length - 1]
LastBlock_(array) == at(array, Len(array) - 1)

\* array.find(_ => isActive(_)) is not undefined
findActive(array) == \E i \in 1..Len(array) : isActive(array[i])

----------------------------------------------------------------------------
(* The event channel: eventChannelUnsafe *)

\* the tab this terminal belongs to: this.props.uuid
uuid == "T1"

\* faulty variant: the topic is not scoped by the tab
topicOf_Shared(prefix, tabUuid) == <<prefix, "">>

\* `${prefix}/${this.props.uuid}`
topicOf(prefix, tabUuid) == <<prefix, tabUuid>>

channel1 == topicOf("/command/start/fromuser", uuid)
channel2 == topicOf("/command/complete/fromuser", uuid)
channel3 == topicOf("/terminal/clear", uuid)

\* this.<fn>.bind(this): every bind yields a new function object
bound(fn, n) == [fn |-> fn, bind |-> n]

\* eventChannelUnsafe.on(topic, handler)
on(registered, topic, handler) ==
    registered \cup {[topic |-> topic, handler |-> handler]}

\* eventChannelUnsafe.off(topic, handler)
off(registered, topic, handler) ==
    registered \ {[topic |-> topic, handler |-> handler]}

\* a cleaner is a closure calling off(topic, handler)
cleaner(topic, handler) == [topic |-> topic, handler |-> handler]

\* faulty variant: the cleaner of the completion topic binds the handler anew
hookIntoREPL_Rebinds(st) ==
    LET onExecStart_ == bound("onExecStart", 1)
        onExecEnd_ == bound("onExecEnd", 1)
    IN  [subs |-> on(on(st.subs, channel1, onExecStart_), channel2, onExecEnd_),
         cleaners |-> st.cleaners \o <<cleaner(channel1, onExecStart_),
                                       cleaner(channel2, bound("onExecEnd", 2))>>]

\* hookIntoREPL, on the pair (registrations, cleaners)
hookIntoREPL(st) ==
    LET onExecStart_ == bound("onExecStart", 1)
        onExecEnd_ == bound("onExecEnd", 1)
    IN  [subs |-> on(on(st.subs, channel1, onExecStart_), channel2, onExecEnd_),
         cleaners |-> st.cleaners \o <<cleaner(channel1, onExecStart_),
                                       cleaner(channel2, onExecEnd_)>>]

\* faulty variant: no cleaner is recorded for the clear topic
initEvents_NoCleaner(st) ==
    LET hooked == hookIntoREPL(st)
        clear_ == bound("clear", 1)
    IN  [subs |-> on(hooked.subs, channel3, clear_),
         cleaners |-> hooked.cleaners]

\* initEvents
initEvents(st) ==
    LET hooked == hookIntoREPL(st)
        clear_ == bound("clear", 1)
    IN  [subs |-> on(hooked.subs, channel3, clear_),
         cleaners |-> hooked.cleaners \o <<cleaner(channel3, clear_)>>]

RECURSIVE runCleaners(_, _)
\* this.cleaners.forEach(cleaner => cleaner())
runCleaners(registered, cs) ==
    IF cs = <<>> THEN registered
    ELSE runCleaners(off(registered, Head(cs).topic, Head(cs).handler), Tail(cs))

\* uninitEvents
uninitEvents(registered, cs) == runCleaners(registered, cs)

\* does an event emitted on the topic reach a handler running fn?
delivers(registered, topic, fn) ==
    \E s \in registered : s.topic = topic /\ s.handler.fn = fn

----------------------------------------------------------------------------
(* The state updaters handed to setState *)

\* faulty variant: the new block starts empty
clearState_DropsInput(ref) == <<Active("")>>

\* clear, lines 89-95
clearState(ref) ==
    LET capturedValue == IF ref.ref THEN ref.inputValue ELSE ""
    IN  <<Active(capturedValue)>>

\* faulty variant: the Processing block is appended, the last block is kept
onExecStartState_Appends(curBlocks, command, execUUID) ==
    curBlocks \o <<Processing(LastBlock_(curBlocks), command, execUUID)>>

\* faulty variant: the block before the last one is cut off as well
onExecStartState_OffByOne(curBlocks, command, execUUID) ==
    LET idx == Len(curBlocks) - 1
    IN  (IF idx >= 1 THEN slice(curBlocks, 0, idx - 1) ELSE <<>>)
            \o <<Processing(at(curBlocks, idx), command, execUUID)>>

\* onExecStart, lines 119-126
onExecStartState(curBlocks, command, execUUID) ==
    LET idx == Len(curBlocks) - 1
    IN  slice(curBlocks, 0, idx) \o <<Processing(at(curBlocks, idx), command, execUUID)>>

\* isWatchable(response), of @kui-shell/core
isWatchable(response) == response = "watch"

\* onExecEnd, lines 156-160
showInTerminal(enableWatchPane, response, evaluatorViewIn, execViewIn) ==
    \/ ~enableWatchPane
    \/ ~isWatchable(response)
    \/ (isWatchable(response) /\ (evaluatorViewIn = "Terminal" \/ execViewIn = "Terminal"))

\* faulty variant: the response type is not consulted
responseOrOk_IgnoresType(responseType, enableWatchPane, response, evaluatorViewIn, execViewIn) ==
    IF showInTerminal(enableWatchPane, response, evaluatorViewIn, execViewIn)
    THEN response
    ELSE OkTrue

\* onExecEnd, line 169: what the Finished block stores
responseOrOk(responseType, enableWatchPane, response, evaluatorViewIn, execViewIn) ==
    IF responseType = "ScalarResponse"
       /\ showInTerminal(enableWatchPane, response, evaluatorViewIn, execViewIn)
    THEN response
    ELSE OkTrue

\* onExecEnd, line 153
inProcessIndex(curBlocks, execUUID) ==
    findIndex({i \in 1..Len(curBlocks) :
                  isProcessing(curBlocks[i]) /\ curBlocks[i].execUUID = execUUID})

\* faulty variant: the blocks after the matched one are lost
onExecEndState_DropsTail(curBlocks, execUUID, cancelled, stored) ==
    LET inProcessIdx == inProcessIndex(curBlocks, execUUID)
    IN  IF inProcessIdx >= 0
        THEN slice(curBlocks, 0, inProcessIdx)
                 \o <<Finished(at(curBlocks, inProcessIdx), stored, cancelled)>>
                 \o <<Active("")>>
        ELSE IF cancelled
        THEN slice(curBlocks, 0, Len(curBlocks) - 1)
                 \o <<Cancelled(LastBlock_(curBlocks))>>
                 \o <<Active("")>>
        ELSE curBlocks

\* faulty variant: the branch of an unmatched cancellation forgets the new Active block
onExecEndState_NoNewBlock(curBlocks, execUUID, cancelled, stored) ==
    LET inProcessIdx == inProcessIndex(curBlocks, execUUID)
    IN  IF inProcessIdx >= 0
        THEN slice(curBlocks, 0, inProcessIdx)
                 \o <<Finished(at(curBlocks, inProcessIdx), stored, cancelled)>>
                 \o sliceFrom(curBlocks, inProcessIdx + 1)
                 \o <<Active("")>>
        ELSE IF cancelled
        THEN slice(curBlocks, 0, Len(curBlocks) - 1)
                 \o <<Cancelled(LastBlock_(curBlocks))>>
        ELSE curBlocks

\* faulty variant: the completion is matched by position, on the last Processing block
onExecEndState_ByPosition(curBlocks, execUUID, cancelled, stored) ==
    LET procs == {i \in 1..Len(curBlocks) : isProcessing(curBlocks[i])}
        inProcessIdx == IF procs = {} THEN -1
                        ELSE (CHOOSE i \in procs : \A j \in procs : j <= i) - 1
    IN  IF inProcessIdx >= 0
        THEN slice(curBlocks, 0, inProcessIdx)
                 \o <<Finished(at(curBlocks, inProcessIdx), stored, cancelled)>>
                 \o sliceFrom(curBlocks, inProcessIdx + 1)
                 \o <<Active("")>>
        ELSE IF cancelled
        THEN slice(curBlocks, 0, Len(curBlocks) - 1)
                 \o <<Cancelled(LastBlock_(curBlocks))>>
                 \o <<Active("")>>
        ELSE curBlocks

\* faulty variant: an unmatched completion always takes the cancellation branch
onExecEndState_AlwaysCancels(curBlocks, execUUID, cancelled, stored) ==
    LET inProcessIdx == inProcessIndex(curBlocks, execUUID)
    IN  IF inProcessIdx >= 0
        THEN slice(curBlocks, 0, inProcessIdx)
                 \o <<Finished(at(curBlocks, inProcessIdx), stored, cancelled)>>
                 \o sliceFrom(curBlocks, inProcessIdx + 1)
                 \o <<Active("")>>
        ELSE slice(curBlocks, 0, Len(curBlocks) - 1)
                 \o <<Cancelled(LastBlock_(curBlocks))>>
                 \o <<Active("")>>

\* onExecEnd, lines 152-196; stored is the value of line 169
onExecEndState(curBlocks, execUUID, cancelled, stored) ==
    LET inProcessIdx == inProcessIndex(curBlocks, execUUID)
    IN  IF inProcessIdx >= 0
        THEN LET inProcess == at(curBlocks, inProcessIdx)
             IN  IF isProcessing(inProcess)
                 THEN slice(curBlocks, 0, inProcessIdx)
                          \o <<Finished(inProcess, stored, cancelled)>>
                          \o sliceFrom(curBlocks, inProcessIdx + 1)
                          \o <<Active("")>>
                 ELSE curBlocks
        ELSE IF cancelled
        THEN LET lastIdx == Len(curBlocks) - 1
             IN  slice(curBlocks, 0, lastIdx)
                     \o <<Cancelled(at(curBlocks, lastIdx))>>
                     \o <<Active("")>>
        ELSE curBlocks

\* faulty variant: the test for a new block looks for a Processing block
willRemoveBlockState_WrongTest(curBlocks, idx) ==
    slice(curBlocks, 0, idx)
        \o sliceFrom(curBlocks, idx + 1)
        \o (IF \E i \in 1..Len(curBlocks) : isProcessing(curBlocks[i])
            THEN <<>> ELSE <<Active("")>>)

\* willRemoveBlock, lines 260-265
willRemoveBlockState(curBlocks, idx) ==
    slice(curBlocks, 0, idx)
        \o sliceFrom(curBlocks, idx + 1)
        \o (IF findActive(curBlocks) THEN <<>> ELSE <<Active("")>>)

----------------------------------------------------------------------------
(* Focus *)

\* Math.max
max(a, b) == IF a >= b THEN a ELSE b

\* faulty variant: an element whose bottom edge is on the top edge of the
\* viewport counts as outside
isInViewport_TouchingTop(rect, clientHeight, innerHeight) ==
    LET viewHeight == max(clientHeight, innerHeight)
    IN  ~(rect.bottom <= 0 \/ rect.top - viewHeight >= 0)

\* isInViewport, lines 60-64; rect is elm.getBoundingClientRect()
isInViewport(rect, clientHeight, innerHeight) ==
    LET viewHeight == max(clientHeight, innerHeight)
    IN  ~(rect.bottom < 0 \/ rect.top - viewHeight >= 0)

\* faulty variant: the active block is focused wherever its element is
doFocus_AnyPlace(activeRef, elm, rect, clientHeight, innerHeight, xterm) ==
    IF activeRef
    THEN IF elm THEN "activeBlock" ELSE "nothing"
    ELSE IF xterm THEN "xterm" ELSE "nothing"

\* doFocus, lines 200-214: what receives the focus. activeRef: _activeBlock
\* is set; elm: its state._block is set; xterm: the document has a
\* textarea.xterm-helper-textarea
doFocus(activeRef, elm, rect, clientHeight, innerHeight, xterm) ==
    IF activeRef
    THEN IF elm /\ isInViewport(rect, clientHeight, innerHeight)
         THEN "activeBlock"
         ELSE "nothing"
    ELSE IF xterm THEN "xterm" ELSE "nothing"

----------------------------------------------------------------------------
(* Rendering: the ref callback of lines 283-288 *)

NullRef == [ref |-> FALSE, inputValue |-> ""]

\* the last Active block of the sequence, in rendering order
lastActive(bs) ==
    bs[CHOOSE i \in 1..Len(bs) :
           isActive(bs[i]) /\ \A j \in (i + 1)..Len(bs) : ~isActive(bs[j])]

\* The callbacks of the previous render are called with null, then those of
\* the new render with the mounted Block: the reference ends up on the last
\* Active block, or null when no block is Active.  A block that stays mounted
\* keeps the text typed in it; a new one shows its captured value.
render(bs, ref, fresh) ==
    IF ~findActive(bs) THEN NullRef
    ELSE IF fresh \/ ~ref.ref
         THEN [ref |-> TRUE, inputValue |-> lastActive(bs).value]
         ELSE ref

----------------------------------------------------------------------------
(* The dispatcher: handlers run to completion, one at a time *)

\* command is the text of a start event; threw tells that an exception left
\* the handler
Op(op, execUUID, echo, cancelled, idx, closeSidecar) ==
    [op |-> op, execUUID |-> execUUID, echo |-> echo, cancelled |-> cancelled,
     idx |-> idx, closeSidecar |-> closeSidecar, command |-> "", threw |-> FALSE]

Snapshot == [blocks |-> blocks, activeBlock |-> activeBlock]

IdleOp == Op("idle", 0, TRUE, FALSE, -1, FALSE)

\* no handler is running: the state is observable from outside
Idle == last = IdleOp

\* setState with the new sequence, then the render pass
setState(newBlocks, fresh) ==
    /\ blocks' = newBlocks
    /\ activeBlock' = render(newBlocks, activeBlock, fresh)

\* a constructor handed `undefined` for the previous block (the sequence is
\* empty) may raise while reading it, and the update is then dropped
outcomes(curBlocks, newBlocks) ==
    IF curBlocks = <<>> THEN {curBlocks, newBlocks} ELSE {newBlocks}

----------------------------------------------------------------------------
(* Initial state: the constructor (lines 73-81) and the first render *)

InitTerminal ==
    LET wired == initEvents([subs |-> {}, cleaners |-> <<>>])
    IN  /\ blocks = <<Active("")>>
        /\ activeBlock = render(<<Active("")>>, NullRef, TRUE)
        /\ subs = wired.subs
        /\ cleaners = wired.cleaners
        /\ mounted = TRUE
        /\ prev = [blocks |-> <<Active("")>>,
                   activeBlock |-> render(<<Active("")>>, NullRef, TRUE)]
        /\ last = IdleOp

\* the tabs that share the channel
Tabs == {"T1", "T2"}

\* hookIntoREPL and initEvents of the terminal of tab u: its three bound
\* handlers, each on the topic scoped by this.props.uuid
subscriptions(u) ==
    {[topic |-> topicOf("/command/start/fromuser", u), fn |-> "onExecStart", self |-> u],
     [topic |-> topicOf("/command/complete/fromuser", u), fn |-> "onExecEnd", self |-> u],
     [topic |-> topicOf("/terminal/clear", u), fn |-> "clear", self |-> u]}

\* no event is being dispatched
TabIdleOp == [op |-> "idle", tab |-> "", execUUID |-> 0, echo |-> TRUE, cancelled |-> FALSE]

\* one terminal constructed and rendered for each tab
InitTabs ==
    /\ tblocks = [u \in Tabs |-> <<Active("")>>]
    /\ trefs = [u \in Tabs |-> render(<<Active("")>>, NullRef, TRUE)]
    /\ bus = UNION {subscriptions(u) : u \in Tabs}
    /\ tprev = [u \in Tabs |-> <<Active("")>>]
    /\ tlast = TabIdleOp

\* no function is being called
NoCall == [fn |-> "none"]

Init ==
    /\ InitTerminal
    /\ InitTabs
    /\ call = NoCall
    /\ pending = {}

----------------------------------------------------------------------------
(* Handlers *)

\* faulty variant: the echo flag is not consulted
onExecStart_IgnoresEcho(execUUID, command, echo, popup, sidecarIsVisible) ==
    /\ \E newBlocks \in outcomes(blocks, onExecStartState(blocks, command, execUUID)) :
           setState(newBlocks, FALSE)
    /\ last' = Op("start", execUUID, echo, FALSE, -1, popup /\ sidecarIsVisible)

\* faulty variant: the side panel is closed whether or not it is visible
onExecStart_ClosesHidden(execUUID, command, echo, popup, sidecarIsVisible) ==
    IF echo = FALSE
    THEN /\ UNCHANGED <<blocks, activeBlock>>
         /\ last' = Op("start", execUUID, echo, FALSE, -1, FALSE)
    ELSE \E newBlocks \in outcomes(blocks, onExecStartState(blocks, command, execUUID)) :
             /\ setState(newBlocks, FALSE)
             /\ last' = [Op("start", execUUID, echo, FALSE, -1, popup)
                            EXCEPT !.command = command, !.threw = (newBlocks = blocks)]

\* onExecStart, lines 108-127
onExecStart(execUUID, command, echo, popup, sidecarIsVisible) ==
    IF echo = FALSE
    THEN /\ UNCHANGED <<blocks, activeBlock>>
         /\ last' = Op("start", execUUID, echo, FALSE, -1, FALSE)
    ELSE \E newBlocks \in outcomes(blocks, onExecStartState(blocks, command, execUUID)) :
             /\ setState(newBlocks, FALSE)
             /\ last' = [Op("start", execUUID, echo, FALSE, -1, popup /\ sidecarIsVisible)
                            EXCEPT !.command = command, !.threw = (newBlocks = blocks)]

\* onExecEnd, lines 130-197
onExecEnd(response, cancelled, echo, evaluatorViewIn, execViewIn, execUUID, responseType, enableWatchPane) ==
    IF echo = FALSE
    THEN /\ UNCHANGED <<blocks, activeBlock>>
         /\ last' = Op("end", execUUID, echo, cancelled, -1, FALSE)
    ELSE LET stored == responseOrOk(responseType, enableWatchPane, response,
                                    evaluatorViewIn, execViewIn)
             newBlocks == onExecEndState(blocks, execUUID, cancelled, stored)
         IN  /\ Len(newBlocks) <= MaxBlocks
             /\ \E nb \in outcomes(blocks, newBlocks) :
                    /\ setState(nb, nb # blocks)
                    /\ last' = [Op("end", execUUID, echo, cancelled, -1, FALSE)
                                   EXCEPT !.threw = (nb # newBlocks)]

\* onExecEnd, lines 147-196, when the block constructors it calls raise: the
\* try of lines 165-178 encloses the matched branch only, so the exception
\* of the branch of lines 182-192 leaves the updater and the handler; an
\* updater that returns nothing or raises leaves the state as it is
onExecEndRaising(cancelled, echo, execUUID) ==
    LET inProcessIdx == inProcessIndex(blocks, execUUID)
    IN  /\ echo # FALSE
        /\ inProcessIdx >= 0 \/ cancelled
        /\ UNCHANGED <<blocks, activeBlock>>
        /\ last' = [Op("end-raising", execUUID, echo, cancelled, -1, FALSE)
                       EXCEPT !.threw = ~(inProcessIdx >= 0)]

\* faulty variant: the callback is called again after the update
onClearCalls_Twice(onClear) == IF onClear THEN 2 ELSE 0

\* clear, lines 84-87: the number of calls of this.props.onClear; onClear
\* tells whether the property is supplied
onClearCalls(onClear) == IF onClear THEN 1 ELSE 0

\* clear, lines 84-96
clear ==
    /\ setState(clearState(activeBlock), TRUE)
    /\ last' = Op("clear", 0, TRUE, FALSE, -1, FALSE)

\* willRemoveBlock, lines 259-266
willRemoveBlock(idx) ==
    /\ setState(willRemoveBlockState(blocks, idx), FALSE)
    /\ last' = Op("remove", 0, TRUE, FALSE, idx, FALSE)

----------------------------------------------------------------------------
(* Steps *)

\* An event emitted on a topic without a handler runs nothing: last then
\* names the emission ("emit-...") instead of a handler.

\* the REPL emits a command start event on this tab's topic
CommandStart ==
    /\ Idle
    /\ prev' = Snapshot
    /\ UNCHANGED <<tabVars, call, pending>>
    /\ UNCHANGED <<subs, cleaners, mounted>>
    /\ \E execUUID \in ExecIds, command \in Commands, echo \in BOOLEAN :
           IF delivers(subs, channel1, "onExecStart")
           THEN \E popup \in BOOLEAN, sidecarIsVisible \in BOOLEAN :
                    onExecStart(execUUID, command, echo, popup, sidecarIsVisible)
           ELSE /\ UNCHANGED <<blocks, activeBlock>>
                /\ last' = Op("emit-start", execUUID, echo, FALSE, -1, FALSE)

\* the response, its type tag, the view options and the feature flag of a
\* completion event; the handler reads them only on the path of line 169, so
\* one representative stands for all of them on the other paths
AllPayloads ==
    [response : Responses, responseType : ResponseTypes,
     evaluatorViewIn : ViewIn, execViewIn : ViewIn, enableWatchPane : BOOLEAN]

Payloads(curBlocks, execUUID, echo) ==
    IF echo /\ inProcessIndex(curBlocks, execUUID) >= 0
    THEN AllPayloads
    ELSE {[response |-> "resp", responseType |-> "ScalarResponse",
           evaluatorViewIn |-> "none", execViewIn |-> "none",
           enableWatchPane |-> FALSE]}

\* the REPL emits a command completion event on this tab's topic
CommandComplete ==
    /\ Idle
    /\ prev' = Snapshot
    /\ UNCHANGED <<tabVars, call, pending>>
    /\ UNCHANGED <<subs, cleaners, mounted>>
    /\ \E execUUID \in ExecIds, cancelled \in BOOLEAN, echo \in BOOLEAN :
           IF delivers(subs, channel2, "onExecEnd")
           THEN \E p \in Payloads(blocks, execUUID, echo) :
                    onExecEnd(p.response, cancelled, echo, p.evaluatorViewIn,
                              p.execViewIn, execUUID, p.responseType, p.enableWatchPane)
           ELSE /\ UNCHANGED <<blocks, activeBlock>>
                /\ last' = Op("emit-end", execUUID, echo, cancelled, -1, FALSE)

\* a terminal clear event is emitted on this tab's topic
TerminalClear ==
    /\ Idle
    /\ prev' = Snapshot
    /\ UNCHANGED <<tabVars, call, pending>>
    /\ UNCHANGED <<subs, cleaners, mounted>>
    /\ IF delivers(subs, channel3, "clear")
       THEN clear
       ELSE /\ UNCHANGED <<blocks, activeBlock>>
            /\ last' = Op("emit-clear", 0, TRUE, FALSE, -1, FALSE)

\* a rendered Block calls willRemove, bound to its index (line 281)
RemoveBlock ==
    /\ mounted
    /\ Idle
    /\ prev' = Snapshot
    /\ UNCHANGED <<tabVars, call, pending>>
    /\ UNCHANGED <<subs, cleaners, mounted>>
    /\ \E idx \in 0..(Len(blocks) - 1) : willRemoveBlock(idx)

\* the user edits the text of the active block's input
TypeInput ==
    /\ mounted
    /\ activeBlock.ref
    /\ Idle
    /\ prev' = Snapshot
    /\ UNCHANGED <<tabVars, call, pending>>
    /\ \E text \in Texts \ {activeBlock.inputValue} :
           activeBlock' = [activeBlock EXCEPT !.inputValue = text]
    /\ last' = Op("type", 0, TRUE, FALSE, -1, FALSE)
    /\ UNCHANGED <<blocks, subs, cleaners, mounted>>

\* componentWillUnmount, lines 248-250
componentWillUnmount ==
    /\ mounted
    /\ Idle
    /\ prev' = Snapshot
    /\ UNCHANGED <<tabVars, call, pending>>
    /\ subs' = uninitEvents(subs, cleaners)
    /\ mounted' = FALSE
    /\ last' = Op("unmount", 0, TRUE, FALSE, -1, FALSE)
    /\ UNCHANGED <<blocks, activeBlock, cleaners>>

\* the handler returns to the event loop
Return ==
    /\ ~Idle
    /\ last' = IdleOp
    /\ prev' = Snapshot
    /\ UNCHANGED <<tabVars, call, pending>>
    /\ UNCHANGED <<blocks, activeBlock, subs, cleaners, mounted>>

Next ==
    \/ CommandStart
    \/ CommandComplete
    \/ TerminalClear
    \/ RemoveBlock
    \/ TypeInput
    \/ componentWillUnmount
    \/ Return

Spec == Init /\ [][Next]_vars

\* a completion event whose handling makes a block constructor raise
CommandCompleteRaising ==
    /\ Idle
    /\ prev' = Snapshot
    /\ UNCHANGED <<tabVars, call, pending>>
    /\ UNCHANGED <<subs, cleaners, mounted>>
    /\ delivers(subs, channel2, "onExecEnd")
    /\ \E execUUID \in ExecIds, cancelled \in BOOLEAN, echo \in BOOLEAN :
           onExecEndRaising(cancelled, echo, execUUID)

NextRaising ==
    \/ CommandStart
    \/ CommandComplete
    \/ CommandCompleteRaising
    \/ TerminalClear
    \/ RemoveBlock
    \/ TypeInput
    \/ componentWillUnmount
    \/ Return

\* the terminal with block constructors that may raise
SpecRaising == Init /\ [][NextRaising]_vars

\* start, complete and clear events only: no block is removed
NextEvents ==
    \/ CommandStart
    \/ CommandComplete
    \/ TerminalClear
    \/ TypeInput
    \/ componentWillUnmount
    \/ Return

SpecEvents == Init /\ [][NextEvents]_vars

----------------------------------------------------------------------------
(* The terminal with the execution engine: every echoed start event is
   followed, some time later, by the completion event of the same execUUID *)

\* the engine starts an execution: it emits the start event on this tab's
\* topic, and owes a completion event when the start was echoed
EngineStart ==
    /\ Idle
    /\ Len(blocks) < MaxBlocks
    /\ delivers(subs, channel1, "onExecStart")
    /\ prev' = Snapshot
    /\ UNCHANGED <<subs, cleaners, mounted, tabVars, call>>
    /\ \E execUUID \in ExecIds \ pending, command \in Commands, echo \in BOOLEAN :
           /\ onExecStart(execUUID, command, echo, FALSE, FALSE)
           /\ pending' = IF echo THEN pending \cup {execUUID} ELSE pending

\* the engine ends the execution execUUID: it emits the completion event
EngineComplete(execUUID) ==
    /\ Idle
    /\ execUUID \in pending
    /\ delivers(subs, channel2, "onExecEnd")
    /\ prev' = Snapshot
    /\ UNCHANGED <<subs, cleaners, mounted, tabVars, call>>
    /\ pending' = pending \ {execUUID}
    /\ \E cancelled \in BOOLEAN, p \in Payloads(blocks, execUUID, TRUE) :
           onExecEnd(p.response, cancelled, TRUE, p.evaluatorViewIn,
                     p.execViewIn, execUUID, p.responseType, p.enableWatchPane)

\* some execution ends
EngineCompletes == \E execUUID \in ExecIds : EngineComplete(execUUID)

NextEngine ==
    \/ EngineStart
    \/ EngineCompletes
    \/ TerminalClear
    \/ Return

\* handlers return, and the engine ends every execution it has started
FairEngine ==
    /\ WF_vars(Return)
    /\ \A execUUID \in ExecIds : SF_vars(EngineComplete(execUUID))

SpecEngine == Init /\ [][NextEngine]_vars /\ FairEngine

----------------------------------------------------------------------------
(* The terminal with its properties and its surroundings on record: call
   holds what the running handler was given from outside its event *)

\* a start event, with inPopup() and this.props.sidecarIsVisible on record
PropsStart ==
    /\ Idle
    /\ delivers(subs, channel1, "onExecStart")
    /\ prev' = Snapshot
    /\ UNCHANGED <<subs, cleaners, mounted, tabVars, pending>>
    /\ \E execUUID \in ExecIds, command \in Commands, echo \in BOOLEAN :
           \E popup \in BOOLEAN, sidecarIsVisible \in BOOLEAN :
               /\ onExecStart(execUUID, command, echo, popup, sidecarIsVisible)
               /\ call' = [fn |-> "onExecStart", popup |-> popup,
                           sidecarIsVisible |-> sidecarIsVisible]

\* a clear event, with this.props.onClear and its calls on record
PropsClear ==
    /\ Idle
    /\ delivers(subs, channel3, "clear")
    /\ prev' = Snapshot
    /\ UNCHANGED <<subs, cleaners, mounted, tabVars, pending>>
    /\ \E onClear \in BOOLEAN :
           /\ clear
           /\ call' = [fn |-> "clear", onClear |-> onClear,
                       onClearCalls |-> onClearCalls(onClear)]

\* the handler returns to the event loop
PropsReturn ==
    /\ ~Idle
    /\ last' = IdleOp
    /\ prev' = Snapshot
    /\ call' = NoCall
    /\ UNCHANGED <<blocks, activeBlock, subs, cleaners, mounted, tabVars, pending>>

NextProps ==
    \/ PropsStart
    \/ CommandComplete
    \/ PropsClear
    \/ TypeInput
    \/ PropsReturn

SpecProps == Init /\ [][NextProps]_vars

----------------------------------------------------------------------------
(* Two terminals, one per tab, on the one event channel *)

\* the longest block sequence a tab is let to grow to
MaxTabBlocks == 2

\* the terminals whose handler of `fn` is registered on the topic
listeners(registered, topic, fn) ==
    {r.self : r \in {q \in registered : q.topic = topic /\ q.fn = fn}}

\* the terminal of a tab after its handler of a start event has run: lines
\* 108-127 and the render that follows
afterExecStart(bs, ref, execUUID, command, echo) ==
    IF echo = FALSE
    THEN [blocks |-> bs, ref |-> ref]
    ELSE LET newBlocks == onExecStartState(bs, command, execUUID)
         IN  [blocks |-> newBlocks, ref |-> render(newBlocks, ref, FALSE)]

\* the terminal of a tab after its handler of a completion event has run:
\* lines 130-197 and the render that follows
afterExecEnd(bs, ref, execUUID, cancelled, echo, p) ==
    IF echo = FALSE
    THEN [blocks |-> bs, ref |-> ref]
    ELSE LET stored == responseOrOk(p.responseType, p.enableWatchPane, p.response,
                                    p.evaluatorViewIn, p.execViewIn)
             newBlocks == onExecEndState(bs, execUUID, cancelled, stored)
         IN  [blocks |-> newBlocks, ref |-> render(newBlocks, ref, newBlocks # bs)]

\* the terminal of a tab after its handler of a clear event has run: lines
\* 84-96 and the render that follows
afterClear(bs, ref) ==
    [blocks |-> clearState(ref), ref |-> render(clearState(ref), ref, TRUE)]

\* every terminal in `heard` moves to its state in `after`, the others stay
deliver(heard, after) ==
    /\ \A u \in heard : Len(after[u].blocks) <= MaxTabBlocks
    /\ tblocks' = [u \in Tabs |-> IF u \in heard THEN after[u].blocks ELSE tblocks[u]]
    /\ trefs' = [u \in Tabs |-> IF u \in heard THEN after[u].ref ELSE trefs[u]]
    /\ tprev' = tblocks
    /\ UNCHANGED <<bus, terminalVars, call, pending>>

\* the REPL emits a command start event for the tab `tab`
TabCommandStart ==
    /\ tlast = TabIdleOp
    /\ \E tab \in Tabs, execUUID \in ExecIds, command \in Commands, echo \in BOOLEAN :
           /\ deliver(listeners(bus, topicOf("/command/start/fromuser", tab), "onExecStart"),
                      [u \in Tabs |-> afterExecStart(tblocks[u], trefs[u], execUUID, command, echo)])
           /\ tlast' = [op |-> "start", tab |-> tab, execUUID |-> execUUID,
                        echo |-> echo, cancelled |-> FALSE]

\* the REPL emits a command completion event for the tab `tab`
TabCommandComplete ==
    /\ tlast = TabIdleOp
    /\ \E tab \in Tabs, execUUID \in ExecIds, cancelled \in BOOLEAN, echo \in BOOLEAN :
           \E p \in UNION {Payloads(tblocks[u], execUUID, echo) : u \in Tabs} :
               /\ deliver(listeners(bus, topicOf("/command/complete/fromuser", tab), "onExecEnd"),
                          [u \in Tabs |-> afterExecEnd(tblocks[u], trefs[u], execUUID,
                                                       cancelled, echo, p)])
               /\ tlast' = [op |-> "end", tab |-> tab, execUUID |-> execUUID,
                            echo |-> echo, cancelled |-> cancelled]

\* a terminal clear event is emitted for the tab `tab`
TabTerminalClear ==
    /\ tlast = TabIdleOp
    /\ \E tab \in Tabs :
           /\ deliver(listeners(bus, topicOf("/terminal/clear", tab), "clear"),
                      [u \in Tabs |-> afterClear(tblocks[u], trefs[u])])
           /\ tlast' = [op |-> "clear", tab |-> tab, execUUID |-> 0,
                        echo |-> TRUE, cancelled |-> FALSE]

\* the handlers of the event have returned
TabReturn ==
    /\ tlast # TabIdleOp
    /\ tlast' = TabIdleOp
    /\ tprev' = tblocks
    /\ UNCHANGED <<tblocks, trefs, bus, terminalVars, call, pending>>

NextTabs ==
    \/ TabCommandStart
    \/ TabCommandComplete
    \/ TabTerminalClear
    \/ TabReturn

SpecTabs == Init /\ [][NextTabs]_vars

----------------------------------------------------------------------------
(* One call of a function, on arguments drawn at the start *)

\* a matched completion event about to be handled: the terminal holds one
\* Processing block whose execUUID is the event's
PendingExecEnd ==
    [fn : {"onExecEnd"}, done : {FALSE}, p : AllPayloads, cancelled : BOOLEAN,
     blocks : {<<Processing(Active(""), "ls", 1)>>}]

InitExecEnd ==
    /\ InitTerminal
    /\ InitTabs
    /\ call \in PendingExecEnd
    /\ pending = {}

\* the updater of onExecEnd, lines 152-181, runs on the event
ApplyExecEnd ==
    /\ call.fn = "onExecEnd"
    /\ ~call.done
    /\ call' = [call EXCEPT
                   !.done = TRUE,
                   !.blocks = onExecEndState(call.blocks, 1, call.cancelled,
                                  responseOrOk(call.p.responseType, call.p.enableWatchPane,
                                               call.p.response, call.p.evaluatorViewIn,
                                               call.p.execViewIn))]
    /\ UNCHANGED <<terminalVars, tabVars, pending>>

SpecExecEnd == InitExecEnd /\ [][ApplyExecEnd]_vars

\* the largest distance of an element's edge from the top of the viewport,
\* and the largest height of the document element and of the window
MaxCoord == 2

\* the bounding rectangles of an element
Rects ==
    {r \in [top : -MaxCoord..MaxCoord, bottom : -MaxCoord..MaxCoord] : r.top <= r.bottom}

\* the owner is about to ask for the focus
PendingFocus ==
    [fn : {"doFocus"}, done : {FALSE}, focused : {"nothing"},
     activeBlock : BOOLEAN, block : BOOLEAN, rect : Rects,
     clientHeight : 0..MaxCoord, innerHeight : 0..MaxCoord, xterm : BOOLEAN]

InitFocus ==
    /\ InitTerminal
    /\ InitTabs
    /\ call \in PendingFocus
    /\ pending = {}

\* doFocus, lines 200-214, runs
ApplyFocus ==
    /\ call.fn = "doFocus"
    /\ ~call.done
    /\ call' = [call EXCEPT
                   !.done = TRUE,
                   !.focused = doFocus(call.activeBlock, call.block, call.rect,
                                       call.clientHeight, call.innerHeight, call.xterm)]
    /\ UNCHANGED <<terminalVars, tabVars, pending>>

SpecFocus == InitFocus /\ [][ApplyFocus]_vars

\* an element about to be tested against the viewport
PendingViewport ==
    [fn : {"isInViewport"}, done : {FALSE}, result : {FALSE}, rect : Rects,
     clientHeight : 0..MaxCoord, innerHeight : 0..MaxCoord]

InitViewport ==
    /\ InitTerminal
    /\ InitTabs
    /\ call \in PendingViewport
    /\ pending = {}

\* isInViewport, lines 60-64, runs
ApplyViewport ==
    /\ call.fn = "isInViewport"
    /\ ~call.done
    /\ call' = [call EXCEPT
                   !.done = TRUE,
                   !.result = isInViewport(call.rect, call.clientHeight, call.innerHeight)]
    /\ UNCHANGED <<terminalVars, tabVars, pending>>

SpecViewport == InitViewport /\ [][ApplyViewport]_vars

----------------------------------------------------------------------------
(* kubectl get namespaces: the table of namespaces as a RadioTable *)

\* the longest table of namespaces
MaxRows == 4

\* the namespaces of the cluster
Namespaces == {"default", "kube-system", "dev", "prod"}

\* a row of the table that kubectl get namespaces is parsed into
NamespaceRow(name) ==
    [name |-> name,
     attributes |-> <<[value |-> "Active", outerCSS |-> "", css |-> "green-background"]>>]

\* the table bodies: every namespace on at most one row
NamespaceTables ==
    UNION {{[i \in 1..n |-> NamespaceRow(names[i])] :
               names \in {f \in [1..n -> Namespaces] :
                              \A i, j \in 1..n : i # j => f[i] # f[j]}} :
           n \in 0..MaxRows}

\* hintsFor, lines 128-146; a class attribute is one class name here
hintsFor(outerCSS, css) ==
    (IF outerCSS = "hide-with-sidecar" THEN <<"HideWithSidecar">> ELSE <<>>)
    \o (IF css = "green-background" THEN <<"HaveGreenBadge">>
        ELSE IF css = "yellow-background" THEN <<"HaveYellowBadge">>
        ELSE IF css = "red-background" THEN <<"HaveRedBadge">>
        ELSE IF css = "gray-background" THEN <<"HaveGrayBadge">>
        ELSE <<>>)

\* t2rt, lines 149-160
t2rt(row) ==
    [nameIdx |-> 0,
     cells |-> <<row.name>> \o
               [i \in 1..Len(row.attributes) |->
                   [value |-> row.attributes[i].value,
                    hints |-> hintsFor(row.attributes[i].outerCSS, row.attributes[i].css)]]]

\* the row with its onSelect handler, lines 177-184: onSelect is the
\* namespace the handler switches to
withOnSelect(rtRow) ==
    [nameIdx |-> rtRow.nameIdx, cells |-> rtRow.cells,
     onSelect |-> rtRow.cells[rtRow.nameIdx + 1]]

\* body.findIndex(_ => _.name === name)
rowIdxOf(body, name) == findIndex({i \in 1..Len(body) : body[i].name = name})

\* asRadioTable, lines 163-201: defaultSelectedIdx and body of the result
asRadioTable(currentNamespace, body) ==
    LET defaultSelectedIdx == rowIdxOf(body, currentNamespace)
        radioBody == [i \in 1..Len(body) |-> withOnSelect(t2rt(body[i]))]
        rowIdxForDefaultNS == rowIdxOf(body, "default")
    IN  IF rowIdxForDefaultNS # 0 /\ rowIdxForDefaultNS # defaultSelectedIdx
           /\ Len(body) > 2
        THEN LET defaultRow == at(radioBody, rowIdxForDefaultNS)
             IN  [defaultSelectedIdx |->
                      IF defaultSelectedIdx < rowIdxForDefaultNS
                      THEN defaultSelectedIdx + 1
                      ELSE defaultSelectedIdx,
                  body |-> spliceIn(spliceOut(radioBody, rowIdxForDefaultNS, 1),
                                    1, defaultRow)]
        ELSE [defaultSelectedIdx |-> defaultSelectedIdx, body |-> radioBody]

\* a table of namespaces about to be formatted
PendingRadioTable ==
    [fn : {"asRadioTable"}, done : {FALSE}, currentNamespace : Namespaces,
     body : NamespaceTables, radio : {undefined}]

InitRadioTable ==
    /\ InitTerminal
    /\ InitTabs
    /\ call \in PendingRadioTable
    /\ pending = {}

\* asRadioTable runs
ApplyRadioTable ==
    /\ call.fn = "asRadioTable"
    /\ ~call.done
    /\ call' = [call EXCEPT
                   !.done = TRUE,
                   !.radio = asRadioTable(call.currentNamespace, call.body)]
    /\ UNCHANGED <<terminalVars, tabVars, pending>>

SpecRadioTable == InitRadioTable /\ [][ApplyRadioTable]_vars

----------------------------------------------------------------------------
(* namespace summarize: the resources of a namespace, counted by kind *)

\* the longest table of resources
MaxResources == 4

\* the kinds of the resources
Kinds == {"Pod", "Service", "Deployment"}

\* the bodies of the table of `kubectl get all -o custom-columns=KIND:.kind`
ResourceTables ==
    UNION {[1..n -> [name : Kinds]] : n \in 0..MaxResources}

\* the callback of the reduce, lines 51-54, on the histogram as the list
\* of its entries in the order in which the keys were added
countKind(M, kind) ==
    IF \E i \in 1..Len(M) : M[i].key = kind
    THEN [i \in 1..Len(M) |->
             IF M[i].key = kind THEN [key |-> kind, n |-> M[i].n + 1] ELSE M[i]]
    ELSE M \o <<[key |-> kind, n |-> 1]>>

RECURSIVE reduceKinds(_, _)
\* resources.reduce(..., M), lines 51-54
reduceKinds(M, resources) ==
    IF resources = <<>> THEN M
    ELSE reduceKinds(countKind(M, Head(resources).name), Tail(resources))

\* histogram[kind]
histogramAt(M, kind) == (CHOOSE e \in {M[i] : i \in 1..Len(M)} : e.key = kind).n

RECURSIVE decimal(_)
\* the decimal digits of a natural number
decimal(n) ==
    LET digit == <<"0", "1", "2", "3", "4", "5", "6", "7", "8", "9">>
    IN  IF n < 10 THEN digit[n + 1]
        ELSE decimal(n \div 10) \o digit[(n % 10) + 1]

RECURSIVE toLocaleString(_)
\* Number.prototype.toLocaleString of a natural number, in a locale that
\* groups the digits by three
toLocaleString(n) ==
    IF n < 1000 THEN decimal(n)
    ELSE toLocaleString(n \div 1000) \o ","
         \o (IF n % 1000 < 10 THEN "00" ELSE IF n % 1000 < 100 THEN "0" ELSE "")
         \o decimal(n % 1000)

\* the row of a kind, lines 62-71
kindRow(M, kind, ns) ==
    [name |-> kind,
     onclick |-> <<"kubectl get", kind, "-n", ns>>,
     attributes |-> <<[key |-> "COUNT", value |-> toLocaleString(histogramAt(M, kind))]>>]

\* a row put into rows that are sorted by decreasing count, behind the rows
\* it does not come before: the sort is stable
sortedInsert(M, sorted, row) ==
    LET before == {i \in 1..Len(sorted) :
                      \A j \in 1..i :
                          histogramAt(M, row.name) - histogramAt(M, sorted[j].name) <= 0}
    IN  SubSeq(sorted, 1, Cardinality(before)) \o <<row>>
        \o SubSeq(sorted, Cardinality(before) + 1, Len(sorted))

RECURSIVE sortByCount(_, _, _)
\* rows.sort((a, b) => histogram[b.name] - histogram[a.name]), line 72,
\* onto the rows sorted so far
sortByCount(M, sorted, rows) ==
    IF rows = <<>> THEN sorted
    ELSE sortByCount(M, sortedInsert(M, sorted, Head(rows)), Tail(rows))

\* faulty variant: the rows are left in the order of the keys
doSummarizeNamedNamespace_Unsorted(resources, ns) ==
    LET histogram == reduceKinds(<<>>, resources)
    IN  [i \in 1..Len(histogram) |-> kindRow(histogram, histogram[i].key, ns)]

\* doSummarizeNamedNamespace, lines 46-78: the body of the result;
\* resources is the body of the table queried at line 48
doSummarizeNamedNamespace(resources, ns) ==
    LET histogram == reduceKinds(<<>>, resources)
    IN  sortByCount(histogram, <<>>,
                    [i \in 1..Len(histogram) |-> kindRow(histogram, histogram[i].key, ns)])

\* a namespace about to be summarized
PendingSummary ==
    [fn : {"doSummarizeNamedNamespace"}, done : {FALSE}, ns : {"dev"},
     resources : ResourceTables, body : {<<>>}]

InitSummary ==
    /\ InitTerminal
    /\ InitTabs
    /\ call \in PendingSummary
    /\ pending = {}

\* doSummarizeNamedNamespace runs
ApplySummary ==
    /\ call.fn = "doSummarizeNamedNamespace"
    /\ ~call.done
    /\ call' = [call EXCEPT
                   !.done = TRUE,
                   !.body = doSummarizeNamedNamespace(call.resources, call.ns)]
    /\ UNCHANGED <<terminalVars, tabVars, pending>>

SpecSummary == InitSummary /\ [][ApplySummary]_vars

----------------------------------------------------------------------------
(* kubectl edit: a resource, or a collection of resources, in the editor *)

\* the largest collection of resources
MaxItems == 2

\* {}
EmptyObject == [x \in {} |-> x]

\* what is thrown; an exception is told from a value by its field `threw`
Raised(message) == [threw |-> TRUE, message |-> message]

\* a resource as `kubectl get -o yaml` yields it; spec is `undefined` for a
\* resource without one
KubeResource(kind, name, namespace, spec) ==
    [apiVersion |-> "v1", kind |-> kind, isKubeResource |-> TRUE,
     metadata |-> [name |-> name, namespace |-> namespace],
     spec |-> spec, kuiRawData |-> <<"yaml of", kind, name>>]

\* a collection of resources as `kubectl get -o yaml` yields it
KubeItems(items) ==
    [apiVersion |-> "v1", kind |-> "List", isKubeResource |-> TRUE,
     items |-> items, kuiRawData |-> <<"yaml of", "List", Len(items)>>]

isKubeResource(resource) == "isKubeResource" \in DOMAIN resource

isKubeItems(resource) == isKubeResource(resource) /\ "items" \in DOMAIN resource

\* the resources of the cluster
KubeResources ==
    {KubeResource("Pod", name, "dev", spec) :
        name \in {"nginx", "nginx2"}, spec \in {undefined, [containers |-> "nginx"]}}

\* what the get command of line 352 may answer
Editables ==
    KubeResources \cup {KubeItems(items) : items \in UNION {[1..n -> KubeResources] : n \in 0..MaxItems}}

\* strings('nItems', n)
nItems(n) == decimal(n) \o " items"

\* editSpec, lines 267-321; a closure is the record of what it captures
editSpec(cmd, namespace, resource) ==
    [readOnly |-> FALSE,
     clearable |-> FALSE,
     save |-> [label |-> "Apply Changes",
               onSave |-> [cmd |-> cmd, namespace |-> namespace]],
     revert |-> [onRevert |-> [resource |-> resource]]]

\* editMode(resource), lines 323-338, with its default arguments
editMode(resource) ==
    [mode |-> "edit", label |-> "Edit", order |-> undefined, priority |-> undefined,
     contentType |-> "yaml", content |-> resource.kuiRawData]

\* doHelp(cmd, args)
doHelp(cmd) == [usage |-> cmd]

\* doEdit, lines 340-379; resource is the answer of the get command
doEdit(cmd, usage, resource) ==
    IF usage THEN doHelp(cmd)
    ELSE IF isKubeItems(resource)
    THEN IF at(resource.items, 0) = undefined
         THEN Raised("TypeError: Cannot read property 'kind' of undefined")
         ELSE LET kind == at(resource.items, 0).kind
                  metadata == at(resource.items, 0).metadata
                  name == IF Len(resource.items) = 1
                          THEN metadata.name
                          ELSE nItems(Len(resource.items))
                  namespace == metadata.namespace
              IN  [apiVersion |-> "kui-shell/v1",
                   kind |-> kind,
                   metadata |-> [name |-> name, namespace |-> namespace],
                   spec |-> editSpec(cmd, namespace, resource),
                   modes |-> <<editMode(resource)>>]
    ELSE resource

\* the viewTransformer of ./get: the resource as a multi-modal response
getView(response) ==
    [apiVersion |-> response.apiVersion, kind |-> response.kind,
     metadata |-> response.metadata, kuiRawData |-> response.kuiRawData,
     isKubeResource |-> TRUE, spec |-> response.spec,
     modes |-> <<[mode |-> "raw", contentType |-> "yaml", content |-> response.kuiRawData]>>,
     defaultMode |-> undefined]

\* editable, lines 381-388; Object.assign lets the later object win
editable(cmd, response) ==
    LET spec == editSpec(cmd, response.metadata.namespace, response)
    IN  [getView(response) EXCEPT
            !.spec = spec @@ (IF response.spec = undefined THEN EmptyObject
                              ELSE response.spec)]

\* showingMode, lines 390-392
showingMode(defaultMode, resource) == [resource EXCEPT !.defaultMode = defaultMode]

\* viewTransformer, lines 395-399
viewTransformer(cmd, response) ==
    IF ~isKubeItems(response) /\ isKubeResource(response)
    THEN showingMode("raw", editable(cmd, response))
    ELSE undefined

\* the result of String.prototype.match: the text of the one group of a
\* regular expression that matched, or null
NoMatch == [match |-> FALSE]
Group(text) == [match |-> TRUE, text |-> text]

\* what `fwrite` and the apply command may end with: "ok", or the error
\* they reject with. The message of an error is a record of its text (the
\* name of the temporary file left out) and of what the expressions of
\* lines 296 and 301 match in it; a rejection with something that is not
\* an Error has no message.
ExecOutcomes ==
    {[ok |-> TRUE],
     [ok |-> FALSE,
      message |-> [text |-> "error validating data", validation |-> Group("unknown field zzzzzz"),
                   parse |-> NoMatch]],
     [ok |-> FALSE,
      message |-> [text |-> "error parsing", validation |-> NoMatch,
                   parse |-> Group("line 12: could not find expected ':'")]],
     [ok |-> FALSE,
      message |-> [text |-> "error validating and parsing", validation |-> Group("unknown field zzzzzz"),
                   parse |-> Group("line 12: could not find expected ':'")]],
     [ok |-> FALSE,
      message |-> [text |-> "Error from server (Forbidden)", validation |-> NoMatch,
                   parse |-> NoMatch]],
     [ok |-> FALSE, message |-> undefined]}

\* the handler of the catch of lines 292-309: what it throws
applyFailed(err) ==
    IF err.message = undefined
    THEN Raised(<<"TypeError: Cannot read property 'match' of undefined">>)
    ELSE IF err.message.validation.match
    THEN Raised(<<err.message.validation.text>>)
    ELSE IF err.message.parse.match
    THEN Raised(<<err.message.parse.text>>)
    ELSE Raised(<<"the first 40 characters of", err.message.text>>)

\* faulty variant: an error that is neither a validation error nor a parse
\* error is logged and dropped
onSave_DropsOtherErrors(fwrite, apply) ==
    IF ~fwrite.ok THEN Raised(<<"fwrite failed">>)
    ELSE IF ~apply.ok /\ apply.message # undefined
            /\ (apply.message.validation.match \/ apply.message.parse.match)
    THEN applyFailed(apply)
    ELSE [type |-> "success", text |-> "Successfully Applied"]

\* onSave, lines 278-315: what the save action returns or throws; fwrite
\* and apply are what the two commands it awaits end with
onSave(fwrite, apply) ==
    IF ~fwrite.ok THEN Raised(<<"fwrite failed">>)
    ELSE IF ~apply.ok THEN applyFailed(apply)
    ELSE [type |-> "success", text |-> "Successfully Applied"]

\* onRevert, line 318
onRevert(revert) == revert.onRevert.resource.kuiRawData

\* an edit command about to run
PendingEdit ==
    [fn : {"edit"}, stage : {"typed"}, cmd : {"kubectl", "k"}, usage : BOOLEAN,
     resource : Editables, response : {undefined}, view : {undefined},
     fwrite : {[ok |-> TRUE]}, apply : {[ok |-> TRUE]}, result : {undefined}]

InitEdit ==
    /\ InitTerminal
    /\ InitTabs
    /\ call \in PendingEdit
    /\ pending = {}

\* the command runs: doEdit, then the viewTransformer on its response,
\* lines 401-406
ApplyEdit ==
    /\ call.fn = "edit"
    /\ call.stage = "typed"
    /\ LET response == doEdit(call.cmd, call.usage, call.resource)
       IN  call' = IF "threw" \in DOMAIN response
                   THEN [call EXCEPT !.stage = "failed", !.response = response]
                   ELSE [call EXCEPT !.stage = "shown", !.response = response,
                                     !.view = viewTransformer(call.cmd, response)]
    /\ UNCHANGED <<terminalVars, tabVars, pending>>

\* the spec of what the editor shows: that of the view, or of the response
\* when the transformer returned nothing
shownSpec == IF call.view = undefined THEN call.response.spec ELSE call.view.spec

\* the user saves: the editor calls spec.save.onSave
ApplySave ==
    /\ call.fn = "edit"
    /\ call.stage = "shown"
    /\ ~call.usage
    /\ \E fwrite \in {o \in ExecOutcomes : o.ok \/ o.message = undefined},
          apply \in ExecOutcomes :
           call' = [call EXCEPT !.stage = "saved", !.fwrite = fwrite, !.apply = apply,
                                !.result = onSave(fwrite, apply)]
    /\ UNCHANGED <<terminalVars, tabVars, pending>>

\* the user reverts: the editor calls spec.revert.onRevert
ApplyRevert ==
    /\ call.fn = "edit"
    /\ call.stage = "shown"
    /\ ~call.usage
    /\ call' = [call EXCEPT !.stage = "reverted",
                             !.result = [content |-> onRevert(shownSpec.revert)]]
    /\ UNCHANGED <<terminalVars, tabVars, pending>>

NextEdit ==
    \/ ApplyEdit
    \/ ApplySave
    \/ ApplyRevert

SpecEdit == InitEdit /\ [][NextEdit]_vars

----------------------------------------------------------------------------
(* Vocabulary of the properties *)

\* the 1-based positions of the Active blocks
ActiveAt(bs) == {i \in 1..Len(bs) : isActive(bs[i])}

NumActive(bs) == Cardinality(ActiveAt(bs))

\* the 1-based positions of the Processing blocks carrying the identifier
ProcessingAt(bs, execUUID) ==
    {i \in 1..Len(bs) : bs[i].state = "Processing" /\ bs[i].execUUID = execUUID}

LastBlock(bs) == bs[Len(bs)]

\* bs without its element at the 1-based position k
Without(bs, k) == [i \in 1..(Len(bs) - 1) |-> IF i < k THEN bs[i] ELSE bs[i + 1]]

----------------------------------------------------------------------------
(* C1: from a fresh terminal, under start, completion and clear events and
   no block removal, the sequence is never empty, holds at most one Active
   block, an Active block is the last element, and the last element is
   Active or Processing. *)
C1_InvariantA ==
    /\ Len(blocks) >= 1
    /\ NumActive(blocks) <= 1
    /\ \A i \in ActiveAt(blocks) : i = Len(blocks)
    /\ LastBlock(blocks).state \in {"Active", "Processing"}

\* a start event has put a Processing block behind two blocks of history
C1_Witness ==
    /\ last.op = "start"
    /\ Len(blocks) >= 3
    /\ LastBlock(blocks).state = "Processing"
    /\ LastBlock(prev.blocks).state = "Active"
(* C2, as stated: in every state observable between two handler
   invocations, exactly one block is Active, also while a command is
   Processing. *)
C2_ExactlyOneActive == Idle => NumActive(blocks) = 1

(* C2, amended: in every state observable between two handler invocations,
   under start, completion and clear events, exactly one block is Active
   unless the last block is Processing, and while the last block is
   Processing no block is Active. *)
C2_OneActiveUnlessProcessing ==
    Idle => NumActive(blocks) = (IF LastBlock(blocks).state = "Processing" THEN 0 ELSE 1)

\* observable, with history, while a command is Processing: no Active block
C2_Witness ==
    /\ Idle
    /\ Len(blocks) >= 2
    /\ LastBlock(blocks).state = "Processing"
    /\ NumActive(blocks) = 0

(* C3: under start, completion and clear events and removals of blocks
   within range, the sequence never holds two or more Active blocks, and an
   Active block, when present, is the last element. *)
C3_AtMostOneActiveAndLast ==
    /\ NumActive(blocks) <= 1
    /\ \A i \in ActiveAt(blocks) : i = Len(blocks)

(* C4: a removal that leaves a sequence without an Active block appends a
   new Active block, so that removing the only Active block yields exactly
   one Active block, at the end, and the result is never empty and never
   without an Active block. *)
C4_RemovalRestoresActive ==
    last.op = "remove" =>
        LET rest == Without(prev.blocks, last.idx + 1)
        IN  /\ NumActive(rest) = 0 => blocks = rest \o <<[state |-> "Active", value |-> ""]>>
            /\ Len(blocks) >= 1
            /\ NumActive(blocks) >= 1

(* C5: removing a non-Active block, at an index within range, from a
   sequence with exactly one Active block removes exactly that block: the
   other blocks are kept as they are and in order, the Active block is
   unchanged, and no Active block is appended. *)
C5_RemoveHistorical ==
    (/\ last.op = "remove"
     /\ NumActive(prev.blocks) = 1
     /\ prev.blocks[last.idx + 1].state # "Active")
    => /\ blocks = Without(prev.blocks, last.idx + 1)
       /\ Len(blocks) = Len(prev.blocks) - 1
       /\ NumActive(blocks) = 1
       /\ LET a == CHOOSE i \in ActiveAt(prev.blocks) : TRUE
          IN  \E b \in ActiveAt(blocks) : blocks[b] = prev.blocks[a]

\* a block in the middle of the history has been removed
C5_Witness ==
    /\ last.op = "remove"
    /\ NumActive(prev.blocks) = 1
    /\ Len(prev.blocks) >= 3
    /\ last.idx > 0
    /\ last.idx < Len(prev.blocks) - 1
    /\ prev.blocks[last.idx + 1].state = "Finished"
    /\ Len(blocks) = Len(prev.blocks) - 1
(* C6: with two Processing blocks carrying distinct identifiers A and B, at
   any positions, an echoed completion event for B turns only the block
   carrying B into Finished; the block carrying A stays Processing with
   identifier A and every other block that was there is unchanged. *)
C6_CompletionMatchesById ==
    \A A \in ExecIds :
        (/\ last.op = "end"
         /\ last.echo
         /\ A # last.execUUID
         /\ ProcessingAt(prev.blocks, A) # {}
         /\ ProcessingAt(prev.blocks, last.execUUID) # {})
        => /\ Len(blocks) >= Len(prev.blocks)
           /\ \E b \in ProcessingAt(prev.blocks, last.execUUID) :
                  /\ blocks[b].state = "Finished"
                  /\ \A j \in 1..Len(prev.blocks) : j # b => blocks[j] = prev.blocks[j]
           /\ \A a \in ProcessingAt(prev.blocks, A) :
                  /\ blocks[a].state = "Processing"
                  /\ blocks[a].execUUID = A

\* B completes first although its block comes after the block of A
C6_Witness ==
    /\ last.op = "end"
    /\ last.echo
    /\ \E a \in 1..Len(prev.blocks), b \in 1..Len(prev.blocks) :
           /\ a < b
           /\ prev.blocks[a].state = "Processing"
           /\ prev.blocks[a].execUUID # last.execUUID
           /\ prev.blocks[b].state = "Processing"
           /\ prev.blocks[b].execUUID = last.execUUID
           /\ blocks[a] = prev.blocks[a]
           /\ blocks[b].state = "Finished"

(* C7: an echoed completion event that is not cancelled and whose
   identifier is carried by no Processing block leaves the sequence exactly
   as it was. *)
C7_UnmatchedCompletionInert ==
    (/\ last.op = "end"
     /\ last.echo
     /\ ~last.cancelled
     /\ ProcessingAt(prev.blocks, last.execUUID) = {})
    => blocks = prev.blocks

\* the completion arrives while a block is Processing under another identifier
C7_Witness ==
    /\ last.op = "end"
    /\ last.echo
    /\ ~last.cancelled
    /\ ProcessingAt(prev.blocks, last.execUUID) = {}
    /\ \E i \in 1..Len(prev.blocks) : prev.blocks[i].state = "Processing"
    /\ Len(prev.blocks) >= 2
    /\ blocks = prev.blocks

(* C8: a start event or a completion event with echo = false never alters
   the sequence, whatever its identifier, cancelled flag or response, and
   such a start event never asks for the side panel to be closed. *)
C8_EchoSuppression ==
    (last.op \in {"start", "end"} /\ ~last.echo)
    => /\ blocks = prev.blocks
       /\ ~last.closeSidecar

\* a silent cancelled completion carrying the identifier of a Processing block
C8_Witness ==
    /\ last.op = "end"
    /\ ~last.echo
    /\ last.cancelled
    /\ ProcessingAt(prev.blocks, last.execUUID) # {}
    /\ blocks = prev.blocks

(* C9: clear yields a sequence of exactly one block, which is Active and
   whose captured input is the text typed in the active block, or the empty
   text when no block is Active; every other block is dropped. *)
C9_ClearKeepsInput ==
    last.op = "clear" =>
        /\ Len(blocks) = 1
        /\ blocks[1].state = "Active"
        /\ blocks[1].value =
               (IF NumActive(prev.blocks) = 0 THEN "" ELSE prev.activeBlock.inputValue)

\* clear with "foo" typed behind two blocks of history
C9_Witness ==
    /\ last.op = "clear"
    /\ Len(prev.blocks) >= 3
    /\ NumActive(prev.blocks) = 1
    /\ prev.activeBlock.inputValue = "foo"
    /\ blocks = <<[state |-> "Active", value |-> "foo"]>>

(* C10: after componentWillUnmount no handler of the terminal remains
   registered on its start, complete or clear topic, and an event emitted
   on those topics leaves the sequence as it was. *)
C10_TeardownUnsubscribes ==
    ~mounted =>
        /\ \A s \in subs : s.topic \notin {channel1, channel2, channel3}
        /\ last.op \notin {"start", "end", "clear"}
        /\ blocks = prev.blocks

\* after teardown, a completion is emitted for a block that is Processing
C10_Witness ==
    /\ ~mounted
    /\ last.op = "emit-end"
    /\ last.echo
    /\ ProcessingAt(prev.blocks, last.execUUID) # {}
    /\ blocks = prev.blocks
(* C12: an echoed completion event whose identifier is carried by a
   Processing block at index i replaces that block by a Finished block with
   the cancelled flag of the event (Finished also when cancelled = true),
   leaves the blocks before and after i as they are and in order, and
   appends exactly one new Active block: the length grows by exactly 1. *)
C12_MatchedCompletion ==
    (/\ last.op = "end"
     /\ last.echo
     /\ ProcessingAt(prev.blocks, last.execUUID) # {})
    => LET i == CHOOSE k \in ProcessingAt(prev.blocks, last.execUUID) :
                    \A j \in ProcessingAt(prev.blocks, last.execUUID) : k <= j
           n == Len(prev.blocks)
       IN  /\ Len(blocks) = n + 1
           /\ blocks[i].state = "Finished"
           /\ blocks[i].cancelled = last.cancelled
           /\ \A j \in 1..n : j # i => blocks[j] = prev.blocks[j]
           /\ blocks[n + 1] = [state |-> "Active", value |-> ""]

\* a cancelled completion finds its Processing block between two other blocks
C12_Witness ==
    /\ last.op = "end"
    /\ last.echo
    /\ last.cancelled
    /\ \E i \in 2..(Len(prev.blocks) - 1) :
           /\ ProcessingAt(prev.blocks, last.execUUID) = {i}
           /\ blocks[i].state = "Finished"
           /\ blocks[i].cancelled
    /\ Len(blocks) = Len(prev.blocks) + 1

(* C13: an echoed completion event with cancelled = true whose identifier
   is carried by no Processing block replaces the last block by a Cancelled
   block, leaves the earlier blocks as they are, and appends exactly one new
   Active block: the length grows by exactly 1. *)
C13_BareCancellation ==
    (/\ last.op = "end"
     /\ last.echo
     /\ last.cancelled
     /\ ProcessingAt(prev.blocks, last.execUUID) = {})
    => LET n == Len(prev.blocks)
       IN  /\ Len(blocks) = n + 1
           /\ n >= 1
           /\ blocks[n].state = "Cancelled"
           /\ \A j \in 1..(n - 1) : blocks[j] = prev.blocks[j]
           /\ blocks[n + 1] = [state |-> "Active", value |-> ""]

(* C14: an echoed start event on a non-empty sequence replaces the last
   block by a Processing block with the command text and the identifier of
   the event, leaves the earlier blocks as they are, and keeps the length. *)
C14_StartReplacesLast ==
    (/\ last.op = "start"
     /\ last.echo
     /\ Len(prev.blocks) >= 1)
    => LET n == Len(prev.blocks)
       IN  /\ Len(blocks) = n
           /\ blocks[n] = [state |-> "Processing", command |-> last.command,
                           execUUID |-> last.execUUID]
           /\ \A j \in 1..(n - 1) : blocks[j] = prev.blocks[j]

\* a start event behind two blocks of history
C14_Witness ==
    /\ last.op = "start"
    /\ last.echo
    /\ Len(prev.blocks) >= 3
    /\ LastBlock(prev.blocks).state = "Active"
    /\ LastBlock(blocks).state = "Processing"
    /\ LastBlock(blocks).execUUID = last.execUUID

(* C16: an echoed completion event carrying identifier X, cancelled or not,
   never changes a Processing block whose identifier differs from X. *)
C16_OnlyMatchingBlockChanges ==
    (last.op = "end" /\ last.echo)
    => \A i \in 1..Len(prev.blocks) :
           (/\ prev.blocks[i].state = "Processing"
            /\ prev.blocks[i].execUUID # last.execUUID)
           => /\ i <= Len(blocks)
              /\ blocks[i] = prev.blocks[i]

(* C17: an echoed start event carrying another identifier never overwrites
   a block that is Processing: the block stays Processing with its own
   identifier. *)
C17_StartKeepsProcessing ==
    (last.op = "start" /\ last.echo)
    => \A i \in 1..Len(prev.blocks) :
           (/\ prev.blocks[i].state = "Processing"
            /\ prev.blocks[i].execUUID # last.execUUID)
           => /\ i <= Len(blocks)
              /\ blocks[i] = prev.blocks[i]

(* C18: no start event and no completion event changes a block that is
   Finished or Cancelled. *)
C18_TerminalStates ==
    last.op \in {"start", "end"}
    => \A i \in 1..Len(prev.blocks) :
           prev.blocks[i].state \in {"Finished", "Cancelled"}
           => /\ i <= Len(blocks)
              /\ blocks[i] = prev.blocks[i]
(* C15: when a block constructor raises while an echoed completion event
   is handled, in the matched branch or in the branch of an unmatched
   cancellation, the exception does not leave the handler and the sequence
   is left exactly as it was. *)
C15_ConstructionFailureContained ==
    last.op = "end-raising" => (~last.threw /\ blocks = prev.blocks)

\* C11: an event emitted for one tab changes the block sequence of that tab
\* only: the sequence of the other tab is as it was before the event
C11_TabIsolation ==
    tlast.op # "idle" =>
        \A u \in Tabs : u # tlast.tab => tblocks[u] = tprev[u]

\* a completion for tab T1 has finished T1's command while T2 holds a
\* Processing block of the same execUUID, which is left alone
C11_Witness ==
    /\ tlast.op = "end"
    /\ tlast.tab = "T1"
    /\ tlast.echo
    /\ ProcessingAt(tprev["T1"], tlast.execUUID) # {}
    /\ ProcessingAt(tblocks["T1"], tlast.execUUID) = {}
    /\ ProcessingAt(tblocks["T2"], tlast.execUUID) # {}
    /\ tblocks["T2"] = tprev["T2"]

\* C19: the Finished block of a matched completion stores the event's
\* response exactly when the response type is ScalarResponse and the result
\* is to be shown in the terminal (the watch pane is disabled, or the
\* response is not watchable, or one of the two alwaysViewIn options is
\* 'Terminal'); in every other case it stores true
C19_StoredValue ==
    (call.fn = "onExecEnd" /\ call.done) =>
        LET p == call.p
            inTerminal == \/ ~p.enableWatchPane
                          \/ ~isWatchable(p.response)
                          \/ p.evaluatorViewIn = "Terminal"
                          \/ p.execViewIn = "Terminal"
        IN  /\ call.blocks[1].state = "Finished"
            /\ call.blocks[1].response =
                   IF p.responseType = "ScalarResponse" /\ inTerminal
                   THEN p.response
                   ELSE OkTrue

\* a watchable scalar response, with the watch pane enabled, is stored
\* because the execution asked to view it in the terminal
C19_Witness ==
    /\ call.fn = "onExecEnd"
    /\ call.done
    /\ call.p.responseType = "ScalarResponse"
    /\ call.p.enableWatchPane
    /\ isWatchable(call.p.response)
    /\ call.p.evaluatorViewIn # "Terminal"
    /\ call.p.execViewIn = "Terminal"
    /\ call.blocks[1].response = call.p.response

\* whether the element's rectangle meets the viewport
C20_Visible ==
    /\ call.rect.bottom >= 0
    /\ call.rect.top < call.clientHeight \/ call.rect.top < call.innerHeight

\* C20, as stated: doFocus focuses the active block when its reference is
\* known and its element is in the viewport; in every other case it focuses
\* the raw text input when the document has one, and nothing otherwise
C20_FocusOrFallback ==
    (call.fn = "doFocus" /\ call.done) =>
        call.focused =
            IF call.activeBlock /\ call.block /\ C20_Visible THEN "activeBlock"
            ELSE IF call.xterm THEN "xterm"
            ELSE "nothing"

\* C20, amended: the raw text input is the fallback only when no active
\* block reference is known; with a known reference whose element is
\* missing or outside the viewport nothing is focused
C20_FallbackOnlyWithoutReference ==
    (call.fn = "doFocus" /\ call.done) =>
        call.focused =
            IF call.activeBlock
            THEN IF call.block /\ C20_Visible THEN "activeBlock" ELSE "nothing"
            ELSE IF call.xterm THEN "xterm"
            ELSE "nothing"

\* the reference is known, its element lies below the viewport, the
\* document has a raw text input, and nothing was focused
C20_Witness ==
    /\ call.fn = "doFocus"
    /\ call.done
    /\ call.activeBlock
    /\ call.block
    /\ call.rect.top >= max(call.clientHeight, call.innerHeight)
    /\ call.xterm
    /\ call.focused = "nothing"

\* C21: with the engine completing every echoed start, and start, complete
\* and clear events only, a state whose last block is Processing is
\* eventually followed by a state whose last block is Active
C21_PromptComesBack ==
    (blocks # <<>> /\ isProcessing(LastBlock(blocks)))
        ~> (blocks # <<>> /\ isActive(LastBlock(blocks)))

\* the registrations on a topic, and the recorded cleanups of a topic
C22_Registered(topic) == {r \in subs : r.topic = topic}
C22_Cleanups(topic) == {i \in 1..Len(cleaners) : cleaners[i].topic = topic}

(* C22: construction registers exactly three subscriptions, one handler on
   each of the start, complete and clear topics of the tab, and records one
   cleanup per subscription, for the very (topic, handler) pair registered;
   teardown runs each of them once, which leaves no registration: on every
   topic as many deregistrations as registrations. *)
C22_CleanupPerSubscription ==
    /\ Len(cleaners) = 3
    /\ \A topic \in {channel1, channel2, channel3} :
           Cardinality(C22_Cleanups(topic)) = 1
    /\ mounted =>
           /\ Cardinality(subs) = 3
           /\ \A topic \in {channel1, channel2, channel3} :
                  /\ Cardinality(C22_Registered(topic)) = 1
                  /\ \A r \in C22_Registered(topic) :
                         \A i \in C22_Cleanups(topic) : cleaners[i] = r
    /\ ~mounted => subs = {}

\* teardown has just run the three cleanups
C22_Witness ==
    /\ last.op = "unmount"
    /\ ~mounted
    /\ Len(cleaners) = 3
    /\ subs = {}

(* C23: a clear calls the onClear callback once when one is supplied (and
   makes no call when none is), and, with or without a callback and with or
   without a known active block, raises nothing and replaces the sequence
   by one Active block holding the captured input. *)
C23_ClearCallsOnClearOnce ==
    (last.op = "clear" /\ call.fn = "clear") =>
        /\ call.onClear => call.onClearCalls = 1
        /\ ~call.onClear => call.onClearCalls = 0
        /\ ~last.threw
        /\ Len(blocks) = 1
        /\ isActive(blocks[1])
        /\ blocks[1].value = IF prev.activeBlock.ref
                              THEN prev.activeBlock.inputValue
                              ELSE ""

\* a clear without callback while a command is Processing and no active
\* block is known
C23_Witness ==
    /\ last.op = "clear"
    /\ call.fn = "clear"
    /\ ~call.onClear
    /\ ~prev.activeBlock.ref
    /\ isProcessing(LastBlock(prev.blocks))
    /\ blocks = <<Active("")>>

(* C24: a start event asks to close the side panel exactly when echo is not
   false, the shell is in popup mode and the side panel is visible; the
   last block is then still made Processing. *)
C24_SidecarClosedInPopup ==
    (last.op = "start" /\ call.fn = "onExecStart") =>
        /\ last.closeSidecar <=>
               (last.echo # FALSE /\ call.popup /\ call.sidecarIsVisible)
        /\ last.closeSidecar =>
               /\ Len(blocks) = Len(prev.blocks)
               /\ isProcessing(LastBlock(blocks))
               /\ LastBlock(blocks).execUUID = last.execUUID

\* an echoed start in popup mode with the side panel visible, on an Active
\* block
C24_Witness ==
    /\ last.op = "start"
    /\ call.fn = "onExecStart"
    /\ last.echo
    /\ call.popup
    /\ call.sidecarIsVisible
    /\ last.closeSidecar
    /\ isActive(LastBlock(prev.blocks))
    /\ isProcessing(LastBlock(blocks))

(* C25: isInViewport returns true if and only if the bottom edge of the
   element is >= 0 and its top edge is strictly less than the viewport
   height, the larger of the document's client height and the window's
   inner height. *)
C25_InViewportIff ==
    (call.fn = "isInViewport" /\ call.done) =>
        LET height == CHOOSE h \in {call.clientHeight, call.innerHeight} :
                          h >= call.clientHeight /\ h >= call.innerHeight
        IN  call.result <=> (call.rect.bottom >= 0 /\ call.rect.top < height)

\* an element that ends on the top edge of the viewport is inside, and one
\* that starts between the two heights is measured against the larger
C25_Witness ==
    /\ call.fn = "isInViewport"
    /\ call.done
    /\ call.result
    /\ \/ call.rect.bottom = 0
       \/ call.rect.top >= call.clientHeight /\ call.rect.top < call.innerHeight

\* the name shown by a row of a RadioTable
C26_NameOf(rtRow) == rtRow.cells[rtRow.nameIdx + 1]

\* the 1-based positions of a RadioTable body that hold rows other than
\* the one of the default namespace
C26_Others(body) ==
    {i \in 1..Len(body) : body[i] # undefined /\ C26_NameOf(body[i]) # "default"}

(* C26: asRadioTable keeps the rows of the table: the body of the result
   has the length of the input, no undefined entry, every input row,
   converted, exactly once, and its rows other than 'default' in the order
   of the input. *)
C26_RowsKept ==
    (call.fn = "asRadioTable" /\ call.done) =>
        LET inp == call.body
            out == call.radio.body
        IN  /\ Len(out) = Len(inp)
            /\ \A i \in 1..Len(out) : out[i] # undefined
            /\ \A i \in 1..Len(inp) :
                   Cardinality({j \in 1..Len(out) : out[j] = withOnSelect(t2rt(inp[i]))}) = 1
            /\ \A i, j \in C26_Others(out) :
                   i < j =>
                       rowIdxOf(inp, C26_NameOf(out[i])) < rowIdxOf(inp, C26_NameOf(out[j]))

(* C27: in the result of asRadioTable, defaultSelectedIdx designates the
   row named after the current namespace, and is -1 when the current
   namespace is not in the table. *)
C27_SelectedIsCurrent ==
    (call.fn = "asRadioTable" /\ call.done) =>
        LET sel == call.radio.defaultSelectedIdx
            out == call.radio.body
        IN  IF \E i \in 1..Len(call.body) : call.body[i].name = call.currentNamespace
            THEN /\ 0 <= sel
                 /\ sel < Len(out)
                 /\ out[sel + 1] # undefined
                 /\ C26_NameOf(out[sel + 1]) = call.currentNamespace
            ELSE sel = -1

\* the number of input rows of a kind
C28_RowsOfKind(kind) ==
    Cardinality({i \in 1..Len(call.resources) : call.resources[i].name = kind})

\* the count a row of the summary shows
C28_Shown(row) ==
    LET numeral == <<"1", "2", "3", "4", "5", "6", "7", "8", "9">>
    IN  {n \in 1..9 : numeral[n] = row.attributes[1].value}

(* C28: doSummarizeNamedNamespace returns one row per distinct kind of the
   queried table, each showing as COUNT the number of input rows of its
   kind, ordered by non-increasing count. *)
C28_HistogramByKind ==
    (call.fn = "doSummarizeNamedNamespace" /\ call.done) =>
        LET out == call.body
        IN  /\ {out[i].name : i \in 1..Len(out)}
                   = {call.resources[i].name : i \in 1..Len(call.resources)}
            /\ \A i, j \in 1..Len(out) : i # j => out[i].name # out[j].name
            /\ \A i \in 1..Len(out) :
                   /\ out[i].attributes[1].key = "COUNT"
                   /\ C28_Shown(out[i]) = {C28_RowsOfKind(out[i].name)}
            /\ \A i, j \in 1..Len(out) :
                   i < j => C28_RowsOfKind(out[i].name) >= C28_RowsOfKind(out[j].name)

\* the kind met first has fewer resources than a kind met later, and
\* comes behind it in the summary
C28_Witness ==
    /\ call.fn = "doSummarizeNamedNamespace"
    /\ call.done
    /\ Len(call.body) >= 2
    /\ call.body[1].name # call.resources[1].name
    /\ C28_RowsOfKind(call.body[1].name) > C28_RowsOfKind(call.resources[1].name)

(* C29: the edit command shows a single resource as a view whose default
   mode is 'raw' and whose spec has readOnly = false, clearable = false, a
   save action and a revert action; it shows a collection as a response
   with the one mode 'edit', named after its item when it has one item and
   after the number of its items otherwise, and the view transformer
   returns nothing for a collection. *)
C29_EditPresentation ==
    (call.fn = "edit" /\ call.stage # "typed" /\ ~call.usage) =>
        IF isKubeItems(call.resource)
        THEN /\ call.stage # "failed"
             /\ viewTransformer(call.cmd, call.resource) = undefined
             /\ call.view = undefined
             /\ Len(call.response.modes) = 1
             /\ call.response.modes[1].mode = "edit"
             /\ call.response.metadata.name =
                    IF Len(call.resource.items) = 1
                    THEN call.resource.items[1].metadata.name
                    ELSE nItems(Len(call.resource.items))
        ELSE /\ call.stage # "failed"
             /\ call.view # undefined
             /\ call.view.defaultMode = "raw"
             /\ call.view.spec.readOnly = FALSE
             /\ call.view.spec.clearable = FALSE
             /\ {"save", "revert"} \subseteq DOMAIN call.view.spec

(* C30: the save action returns the success text 'Successfully Applied'
   only when the write of the temporary file and the apply command have
   both succeeded; every failure of the apply command makes it fail with an
   error; the revert action returns the raw data of the resource. *)
C30_SaveSucceedsOnlyWhenApplied ==
    /\ (call.fn = "edit" /\ call.stage = "saved") =>
           IF call.fwrite.ok /\ call.apply.ok
           THEN call.result = [type |-> "success", text |-> "Successfully Applied"]
           ELSE /\ "threw" \in DOMAIN call.result
                /\ "type" \notin DOMAIN call.result
    /\ (call.fn = "edit" /\ call.stage = "reverted") =>
           call.result.content = call.resource.kuiRawData

\* the apply command has failed with an error that is neither a validation
\* error nor a parse error, and the save action has failed
C30_Witness ==
    /\ call.fn = "edit"
    /\ call.stage = "saved"
    /\ call.fwrite.ok
    /\ ~call.apply.ok
    /\ call.apply.message # undefined
    /\ ~call.apply.message.validation.match
    /\ ~call.apply.message.parse.match
    /\ "threw" \in DOMAIN call.result

=============================================================================
